---- MODULE Spec2Model ----
(***************************************************************************)
(* RawMap (raw_map/src/lib.rs): the intermediate map representation and    *)
(* its two synthetic-identifier allocators, new_osm_way_id and             *)
(* new_osm_node_id.                                                        *)
(*                                                                         *)
(* A RawMap is a record of its collections.  Only the identifiers of the   *)
(* stored objects are kept: the allocators read nothing else (polygons,    *)
(* tags and amenities never reach a comparison).  Maps (BTreeMap) are the  *)
(* sets of their keys, Vecs are sequences, the MultiMap is a set of        *)
(* (key, value) pairs.                                                     *)
(*                                                                         *)
(* Identifiers are i64 in the source.  The model keeps the two's           *)
(* complement shape with a narrower word of W bits: IntMin..IntMax.        *)
(* `x -= 1` at IntMin overflows: a build with overflow checks panics, a    *)
(* build without them wraps to IntMax.  The build is fixed for a run.      *)
(***************************************************************************)
EXTENDS Integers, Sequences, FiniteSets

\* Width of the signed word standing for i64.
W == 4

\* Largest number of objects the builder puts into one map.
MaxObjs == 2

IntMin == -(2 ^ (W - 1))

IntMax == (2 ^ (W - 1)) - 1

\* MapName values handed to RawMap::blank.
Names == {"montlake", "lakeslice"}

\* Identifiers the upstream parser and editors insert objects under: the
\* source-derived 5, the synthetic -1, and the lowest word value.
IdChoices == {IntMin, -1, 5}

\* Arguments the callers pass as `start`.
StartChoices == {IntMin, -1, 0, 5}

\* osm::OsmID: Node(NodeID) | Way(WayID) | Relation(RelationID)
OsmID(tag, id) == [tag |-> tag, id |-> id]

Way(id) == OsmID("Way", id)

Node(id) == OsmID("Node", id)

OsmTags == {"Node", "Way", "Relation"}

\* The key of streets.roads: the originating way and its two end nodes.
RoadID(w, a, b) == [osm_way_id |-> w, i1 |-> a, i2 |-> b]

\* End nodes given to inserted roads: a way split into two roads keeps its
\* way id in both.
RoadEnds == {<<1, 2>>, <<2, 3>>}

VARIABLES
    map,              \* the RawMap (self)
    overflow_checks,  \* the build: does i64 overflow panic (TRUE) or wrap
    pc,               \* "idle", "way_loop", "node_loop", "returned", "panicked"
    kind,             \* the allocator called: "none", "way", "node"
    start,            \* the argument of the running or finished call
    osm_id,           \* the local osm_way_id / osm_node_id
    result,           \* the returned id: {} (none) or {id}
    examined,         \* candidates tested by the running or finished call
    blank_name,       \* the argument of the last RawMap::blank
    fresh,            \* nothing was inserted since RawMap::blank
    prev,             \* the result of the call before a repeated call: {} or {r}
    map2,             \* a second RawMap (the pair specification)
    pc2,
    osm_id2,
    result2

vars == <<map, overflow_checks, pc, kind, start, osm_id, result, examined,
          blank_name, fresh, prev, map2, pc2, osm_id2, result2>>

call_vars == <<pc, kind, start, osm_id, result, examined>>

second_vars == <<map2, pc2, osm_id2, result2>>

\* StreetNetwork::blank(): no roads, no intersections.
StreetNetworkBlank == [roads |-> {}, intersections |-> {}]

\* A mutant of Blank: the street network is not reset.
BlankKeepsRoad(name) ==
    [name |-> name,
     streets |-> [roads |-> {RoadID(-1, 1, 2)}, intersections |-> {}],
     buildings |-> {},
     areas |-> <<>>,
     parking_lots |-> <<>>,
     parking_aisles |-> <<>>,
     transit_routes |-> <<>>,
     transit_stops |-> {},
     bus_routes_on_roads |-> {}]

\* RawMap::blank
Blank(name) ==
    [name |-> name,
     streets |-> StreetNetworkBlank,
     buildings |-> {},
     areas |-> <<>>,
     parking_lots |-> <<>>,
     parking_aisles |-> <<>>,
     transit_routes |-> <<>>,
     transit_stops |-> {},
     bus_routes_on_roads |-> {}]

\* Number of objects a map holds.
Size(m) ==
    Cardinality(m.streets.roads) + Cardinality(m.streets.intersections)
    + Cardinality(m.buildings) + Len(m.areas) + Len(m.parking_lots)
    + Len(m.parking_aisles) + Len(m.transit_routes)
    + Cardinality(m.transit_stops) + Cardinality(m.bus_routes_on_roads)

\* A mutant of WayOccupied: buildings are not consulted.
WayOccupiedRoadsOnly(m, id) ==
    \E r \in m.streets.roads : r.osm_way_id = id

\* A mutant of WayOccupied: areas are consulted too.
WayOccupiedWithAreas(m, id) ==
    \/ \E r \in m.streets.roads : r.osm_way_id = id
    \/ \E b \in m.buildings : b = Way(id)
    \/ \E k \in 1..Len(m.areas) : m.areas[k] = Way(id)

\* The condition of the way loop: some road key has this osm_way_id, or
\* some building key is OsmID::Way(candidate).
WayOccupied(m, id) ==
    \/ \E r \in m.streets.roads : r.osm_way_id = id
    \/ \E b \in m.buildings : b = Way(id)

\* The condition of the node loop: some intersection key is this id.
NodeOccupied(m, id) ==
    \E i \in m.streets.intersections : i = id

\* A mutant of StartOk: zero is accepted.
StartOkZero(s) == s <= 0

\* assert!(start < 0)
StartOk(s) == s < 0

\* One pass of `loop { ... }` from local state id: the pc, the local and
\* the returned value after it.  occ is the loop's condition at id.
Iteration(occ, id, loop, oc) ==
    IF occ
    THEN IF id = IntMin
         THEN IF oc
              THEN [pc |-> "panicked", osm_id |-> id, result |-> {}]
              ELSE [pc |-> loop, osm_id |-> IntMax, result |-> {}]
         ELSE [pc |-> loop, osm_id |-> id - 1, result |-> {}]
    ELSE [pc |-> "returned", osm_id |-> id, result |-> {id}]

Quiet == pc \in {"idle", "returned"}

Init ==
    /\ blank_name \in Names
    /\ map = Blank(blank_name)
    /\ overflow_checks \in BOOLEAN
    /\ pc = "idle"
    /\ kind = "none"
    /\ start = 0
    /\ osm_id = 0
    /\ result = {}
    /\ examined = 0
    /\ fresh = TRUE
    /\ prev = {}
    /\ map2 = Blank(blank_name)
    /\ pc2 = "idle"
    /\ osm_id2 = 0
    /\ result2 = {}

\* No call is running or finished: the locals hold nothing.
Rest ==
    /\ pc' = "idle"
    /\ kind' = "none"
    /\ start' = 0
    /\ osm_id' = 0
    /\ result' = {}
    /\ examined' = 0
    /\ prev' = {}

\* The builder owns the map between calls; it inserts one more object.
Mutate(m) ==
    /\ Quiet
    /\ Size(map) < MaxObjs
    /\ map' = m
    /\ fresh' = FALSE
    /\ Rest
    /\ UNCHANGED <<overflow_checks, blank_name, second_vars>>

\* let map = RawMap::blank(name)
NewBlank ==
    /\ Quiet
    /\ \E n \in Names :
          /\ map' = Blank(n)
          /\ blank_name' = n
    /\ fresh' = TRUE
    /\ Rest
    /\ UNCHANGED <<overflow_checks, second_vars>>

WithRoad(m, r) == [m EXCEPT !.streets.roads = @ \cup {r}]

WithIntersection(m, i) == [m EXCEPT !.streets.intersections = @ \cup {i}]

WithBuilding(m, b) == [m EXCEPT !.buildings = @ \cup {b}]

WithArea(m, a) == [m EXCEPT !.areas = Append(@, a)]

WithParkingLot(m, a) == [m EXCEPT !.parking_lots = Append(@, a)]

WithParkingAisle(m, w) == [m EXCEPT !.parking_aisles = Append(@, w)]

WithTransitStop(m, s) == [m EXCEPT !.transit_stops = @ \cup {s}]

WithTransitRoute(m, r) == [m EXCEPT !.transit_routes = Append(@, r)]

WithBusRoute(m, w, n) == [m EXCEPT !.bus_routes_on_roads = @ \cup {<<w, n>>}]

\* map.streets.roads.insert(RoadID { osm_way_id, i1, i2 }, ..)
InsertRoad ==
    \E w \in IdChoices \cup result : \E e \in RoadEnds :
        /\ RoadID(w, e[1], e[2]) \notin map.streets.roads
        /\ Mutate(WithRoad(map, RoadID(w, e[1], e[2])))

\* map.streets.intersections.insert(NodeID(i), ..)
InsertIntersection ==
    \E i \in IdChoices \cup result :
        /\ i \notin map.streets.intersections
        /\ Mutate(WithIntersection(map, i))

\* map.buildings.insert(id, RawBuilding { .. })
InsertBuilding ==
    \E t \in OsmTags : \E i \in IdChoices \cup result :
        /\ OsmID(t, i) \notin map.buildings
        /\ Mutate(WithBuilding(map, OsmID(t, i)))

\* map.areas.push(RawArea { osm_id, .. })
InsertArea ==
    \E i \in IdChoices \cup result : Mutate(WithArea(map, Way(i)))

\* map.parking_lots.push(RawParkingLot { osm_id, .. })
InsertParkingLot ==
    \E i \in IdChoices \cup result : Mutate(WithParkingLot(map, Way(i)))

\* map.parking_aisles.push((WayID(w), pts))
InsertParkingAisle ==
    \E w \in IdChoices \cup result : Mutate(WithParkingAisle(map, w))

\* map.transit_stops.insert(gtfs_id, RawTransitStop { .. })
InsertTransitStop ==
    /\ "stop1" \notin map.transit_stops
    /\ Mutate(WithTransitStop(map, "stop1"))

\* map.transit_routes.push(RawTransitRoute { gtfs_id, stops, .. })
InsertTransitRoute ==
    Mutate(WithTransitRoute(map, [gtfs_id |-> "route1", stops |-> <<"stop1">>]))

\* map.bus_routes_on_roads.insert(WayID(w), name)
InsertBusRoute ==
    /\ <<5, "Route 1">> \notin map.bus_routes_on_roads
    /\ Mutate(WithBusRoute(map, 5, "Route 1"))

\* Entry of either allocator: the assert, then `let mut osm_id = start`.
\* A call that repeats the finished one, nothing inserted between, keeps
\* that one's result and the map it ran on in prev.
Call(k, loop, s) ==
    /\ Quiet
    /\ kind' = k
    /\ start' = s
    /\ examined' = 0
    /\ result' = {}
    /\ IF StartOk(s)
       THEN pc' = loop /\ osm_id' = s
       ELSE pc' = "panicked" /\ osm_id' = 0
    /\ prev' = IF pc = "returned" /\ kind = k /\ start = s
               THEN {[result |-> result, map |-> map]}
               ELSE {}
    /\ UNCHANGED <<map, overflow_checks, blank_name, fresh, second_vars>>

\* map.new_osm_way_id(start)
CallWay == \E s \in StartChoices : Call("way", "way_loop", s)

\* map.new_osm_node_id(start)
CallNode == \E s \in StartChoices : Call("node", "node_loop", s)

\* A mutant of WayStep: the returned id is reserved in buildings.
WayStepReserving ==
    /\ pc = "way_loop"
    /\ LET n == Iteration(WayOccupied(map, osm_id), osm_id, "way_loop",
                          overflow_checks)
       IN  /\ pc' = n.pc
           /\ osm_id' = n.osm_id
           /\ result' = n.result
           /\ map' = IF n.pc = "returned" THEN WithBuilding(map, Way(osm_id))
                      ELSE map
    /\ examined' = examined + 1
    /\ UNCHANGED <<overflow_checks, kind, start, blank_name, fresh,
                   prev, second_vars>>

\* One pass of the loop of new_osm_way_id.
WayStep ==
    /\ pc = "way_loop"
    /\ LET n == Iteration(WayOccupied(map, osm_id), osm_id, "way_loop",
                          overflow_checks)
       IN  /\ pc' = n.pc
           /\ osm_id' = n.osm_id
           /\ result' = n.result
    /\ examined' = examined + 1
    /\ UNCHANGED <<map, overflow_checks, kind, start, blank_name, fresh,
                   prev, second_vars>>

\* One pass of the loop of new_osm_node_id.
NodeStep ==
    /\ pc = "node_loop"
    /\ LET n == Iteration(NodeOccupied(map, osm_id), osm_id, "node_loop",
                          overflow_checks)
       IN  /\ pc' = n.pc
           /\ osm_id' = n.osm_id
           /\ result' = n.result
    /\ examined' = examined + 1
    /\ UNCHANGED <<map, overflow_checks, kind, start, blank_name, fresh,
                   prev, second_vars>>

Next ==
    \/ NewBlank
    \/ InsertRoad
    \/ InsertIntersection
    \/ InsertBuilding
    \/ InsertArea
    \/ InsertParkingLot
    \/ InsertParkingAisle
    \/ InsertTransitStop
    \/ InsertTransitRoute
    \/ InsertBusRoute
    \/ CallWay
    \/ CallNode
    \/ WayStep
    \/ NodeStep

Spec == Init /\ [][Next]_vars

(***************************************************************************)
(* The builder of the allocation protocol: starting from a blank map, it   *)
(* asks an allocator for an id and inserts a new road, intersection or     *)
(* building under the id returned.                                         *)
(***************************************************************************)

\* A road under the way id returned.
PutRoad ==
    /\ pc = "returned" /\ kind = "way"
    /\ \E w \in result : Mutate(WithRoad(map, RoadID(w, 1, 2)))

\* An intersection under the node id returned.
PutIntersection ==
    /\ pc = "returned" /\ kind = "node"
    /\ \E i \in result : Mutate(WithIntersection(map, i))

\* A building under the id returned, keyed by the kind asked for.
PutBuilding ==
    /\ pc = "returned"
    /\ \E i \in result :
          Mutate(WithBuilding(map, IF kind = "way" THEN Way(i) ELSE Node(i)))

NextBuilder ==
    \/ CallWay
    \/ CallNode
    \/ WayStep
    \/ NodeStep
    \/ PutRoad
    \/ PutIntersection
    \/ PutBuilding

SpecBuilder == Init /\ [][NextBuilder]_vars

(***************************************************************************)
(* Two maps side by side: the same new_osm_way_id(start) runs on map and   *)
(* then on map2, under the same build.                                     *)
(***************************************************************************)

\* Identifiers objects of the two maps are inserted under.
PairIds == {IntMin, -1}

\* The maps one insertion away from m.
PairInserted(m) ==
    ({WithRoad(m, RoadID(w, 1, 2)) : w \in PairIds}
     \cup {WithBuilding(m, Way(w)) : w \in PairIds}
     \cup {WithArea(m, Way(w)) : w \in PairIds}
     \cup {WithBuilding(m, Node(-1)), WithBuilding(m, OsmID("Relation", -1)),
           WithParkingLot(m, Way(-1)), WithParkingAisle(m, -1),
           WithIntersection(m, -1), WithTransitStop(m, "stop1")})
    \ {m}

PairQuiet == Quiet /\ pc2 \in {"idle", "returned"}

PairRest ==
    /\ Rest
    /\ pc2' = "idle"
    /\ osm_id2' = 0
    /\ result2' = {}
    /\ fresh' = FALSE
    /\ UNCHANGED <<overflow_checks, blank_name>>

PairInsertFirst ==
    /\ PairQuiet
    /\ Size(map) + Size(map2) <= MaxObjs
    /\ \E m \in PairInserted(map) : map' = m
    /\ PairRest
    /\ UNCHANGED map2

PairInsertSecond ==
    /\ PairQuiet
    /\ Size(map) + Size(map2) <= MaxObjs
    /\ \E m \in PairInserted(map2) : map2' = m
    /\ PairRest
    /\ UNCHANGED map

\* map.new_osm_way_id(start) and map2.new_osm_way_id(start): both entries.
PairCallWay ==
    /\ PairQuiet
    /\ \E s \in StartChoices :
          /\ start' = s
          /\ IF StartOk(s)
             THEN /\ pc' = "way_loop" /\ pc2' = "way_loop"
                  /\ osm_id' = s /\ osm_id2' = s
             ELSE /\ pc' = "panicked" /\ pc2' = "panicked"
                  /\ osm_id' = 0 /\ osm_id2' = 0
    /\ kind' = "way"
    /\ examined' = 0
    /\ result' = {}
    /\ result2' = {}
    /\ UNCHANGED <<map, map2, overflow_checks, blank_name, fresh, prev>>

\* One pass of the loop of new_osm_way_id on map2, once the call on map ended.
WayStepSecond ==
    /\ pc # "way_loop"
    /\ pc2 = "way_loop"
    /\ LET n == Iteration(WayOccupied(map2, osm_id2), osm_id2, "way_loop",
                          overflow_checks)
       IN  /\ pc2' = n.pc
           /\ osm_id2' = n.osm_id
           /\ result2' = n.result
    /\ UNCHANGED <<map, map2, overflow_checks, call_vars, blank_name, fresh,
                   prev>>

NextPair ==
    \/ PairInsertFirst
    \/ PairInsertSecond
    \/ PairCallWay
    \/ WayStep
    \/ WayStepSecond

SpecPair == Init /\ [][NextPair]_vars

(***************************************************************************)
(* The claims.                                                             *)
(***************************************************************************)

\* The way ids the way allocator consults.
WayUsed(m, w) ==
    \/ \E r \in m.streets.roads : r.osm_way_id = w
    \/ Way(w) \in m.buildings

\* The node ids of intersections.
NodeUsed(m, n) == n \in m.streets.intersections

\* Is v taken, for the allocator of kind k.
Taken(m, k, v) == IF k = "way" THEN WayUsed(m, v) ELSE NodeUsed(m, v)

\* Every place of a map that holds an identifier of kind k equal to v.
Present(m, k, v) ==
    LET id == IF k = "way" THEN Way(v) ELSE Node(v)
    IN  \/ id \in m.buildings
        \/ \E j \in 1..Len(m.areas) : m.areas[j] = id
        \/ \E j \in 1..Len(m.parking_lots) : m.parking_lots[j] = id
        \/ /\ k = "way"
           /\ \/ \E r \in m.streets.roads : r.osm_way_id = v
              \/ \E j \in 1..Len(m.parking_aisles) : m.parking_aisles[j] = v
              \/ \E e \in m.bus_routes_on_roads : e[1] = v
        \/ /\ k = "node"
           /\ \/ v \in m.streets.intersections
              \/ \E r \in m.streets.roads : r.i1 = v \/ r.i2 = v

\* C1: new_osm_way_id(start), start < 0, returns a way id w <= start, hence
\* negative, that is no road's osm_way_id and no Way key of buildings.
C1_WayIdAtOrBelowStartAndFree ==
    (pc = "returned" /\ kind = "way" /\ start < 0) =>
        \A w \in result :
            /\ w <= start
            /\ w < 0
            /\ ~ \E r \in map.streets.roads : r.osm_way_id = w
            /\ Way(w) \notin map.buildings

\* C2: new_osm_node_id(start), start < 0, returns a node id n <= start, hence
\* negative, that is no key of streets.intersections.
C2_NodeIdAtOrBelowStartAndFree ==
    (pc = "returned" /\ kind = "node" /\ start < 0) =>
        \A n \in result :
            /\ n <= start
            /\ n < 0
            /\ n \notin map.streets.intersections

\* C3: the result r of either allocator is the nearest free value at or
\* below start: r <= start, r is free, every v with r < v <= start is taken
\* (so start is returned exactly when it is free); with a road of way 5 and
\* a building keyed Way(-1), new_osm_way_id(-1) is -2.
C3_NearestFreeAtOrBelowStart ==
    (pc = "returned" /\ start < 0) =>
        \A r \in result :
            /\ r <= start
            /\ ~ Taken(map, kind, r)
            /\ \A v \in (r + 1)..start : Taken(map, kind, v)
            /\ (r = start) <=> ~ Taken(map, kind, start)
            /\ ( /\ kind = "way" /\ start = -1
                 /\ \E x \in map.streets.roads : x.osm_way_id = 5
                 /\ Way(-1) \in map.buildings
                 /\ Cardinality(map.streets.roads) = 1
                 /\ Cardinality(map.buildings) = 1 ) => r = -2

\* C4, as claimed: the id an allocator returns is distinct from every
\* identifier of its kind present in the map at the call.
C4_DistinctFromEveryIdentifier ==
    pc = "returned" => \A r \in result : ~ Present(map, kind, r)

\* C4, amended: the id an allocator returns is distinct from every
\* identifier the allocator consults: the roads' osm_way_id and the Way keys
\* of buildings for a way id, the intersection keys for a node id.
C4_DistinctFromConsulted ==
    pc = "returned" =>
        \A r \in result :
            /\ kind = "way" =>
                  /\ ~ \E x \in map.streets.roads : x.osm_way_id = r
                  /\ Way(r) \notin map.buildings
            /\ kind = "node" => r \notin map.streets.intersections

\* A way id is returned that an area already carries, while a road and a
\* building are in the map.
C4_Witness ==
    /\ pc = "returned" /\ kind = "way"
    /\ map.streets.roads # {}
    /\ \E r \in result : \E j \in 1..Len(map.areas) : map.areas[j] = Way(r)

\* C5: through any run of the allocation protocol from a blank map, an id
\* handed out is not in use (a way id by no road and no Way-keyed building, a
\* node id by no intersection and no Node-keyed building), and no id is
\* shared between the street network and the buildings of its kind.
C5_AllocatedIdsStayDistinct ==
    /\ pc = "returned" =>
          \A r \in result :
              /\ kind = "way" => ~ WayUsed(map, r)
              /\ kind = "node" =>
                    r \notin map.streets.intersections /\ Node(r) \notin map.buildings
    /\ \A x \in map.streets.roads : Way(x.osm_way_id) \notin map.buildings
    /\ \A i \in map.streets.intersections : Node(i) \notin map.buildings

\* C6: every step that leaves a call with start >= 0 begun leaves it
\* panicked, with no candidate tested and nothing returned, and leaves the
\* map as it was.
C6_NonNegativeStartPanics ==
    [][ (kind' # "none" /\ start' >= 0) =>
            /\ pc' = "panicked"
            /\ examined' = 0
            /\ result' = {}
            /\ map' = map ]_vars

\* new_osm_way_id(0) has panicked on a map that holds objects.
C6_Witness ==
    /\ pc = "panicked" /\ kind = "way" /\ start = 0
    /\ Size(map) > 0

\* C7: a call repeated with the same start, nothing inserted between,
\* returns what the first returned, and the map is the one the first ran on.
C7_RepeatedCallSameResult ==
    \A p \in prev :
        /\ map = p.map
        /\ pc \notin {"way_loop", "node_loop"} =>
              (pc = "returned" /\ result = p.result)

\* A repeated call has returned an id below start again.
C7_Witness ==
    /\ prev # {}
    /\ pc = "returned"
    /\ result # {start}

\* C8: a call with start < 0 has no failure path: it never ends in a panic.
C8_NoFailurePath ==
    (kind # "none" /\ start < 0) => pc # "panicked"

\* C9: the map RawMap::blank(name) returns carries that name, has no road,
\* no intersection and only empty collections, and on it each allocator
\* returns exactly start for start < 0.
C9_BlankIsEmpty ==
    fresh =>
        /\ map.name = blank_name
        /\ map.streets.roads = {}
        /\ map.streets.intersections = {}
        /\ map.buildings = {}
        /\ map.areas = <<>>
        /\ map.parking_lots = <<>>
        /\ map.parking_aisles = <<>>
        /\ map.transit_routes = <<>>
        /\ map.transit_stops = {}
        /\ map.bus_routes_on_roads = {}
        /\ (kind # "none" /\ start < 0 /\ pc \notin {"way_loop", "node_loop"})
              => (pc = "returned" /\ result = {start})

\* On a map fresh from blank, new_osm_node_id(IntMin) has returned.
C9_Witness ==
    /\ fresh
    /\ map.name = "lakeslice"
    /\ pc = "returned" /\ kind = "node"
    /\ result = {IntMin}

\* What new_osm_way_id reads of a map.
WayKeys(m) ==
    {r.osm_way_id : r \in m.streets.roads}
    \cup {b.id : b \in {x \in m.buildings : x.tag = "Way"}}

\* C10: two maps with the same road way ids and the same Way keys of
\* buildings give the same outcome of new_osm_way_id(start), whatever else
\* they hold.
C10_WayIdDependsOnWayKeysOnly ==
    ( /\ kind = "way"
      /\ pc \in {"returned", "panicked"}
      /\ pc2 \in {"returned", "panicked"}
      /\ WayKeys(map) = WayKeys(map2) )
    => (pc = pc2 /\ result = result2)

\* Both maps hold the same road, only the first holds an area, and both
\* calls returned the way id of that area.
C10_Witness ==
    /\ kind = "way" /\ pc = "returned" /\ pc2 = "returned"
    /\ WayKeys(map) = WayKeys(map2)
    /\ map.streets.roads # {}
    /\ map2.areas = <<>>
    /\ \E r \in result : \E j \in 1..Len(map.areas) : map.areas[j] = Way(r)
    /\ result = result2
====
